---- MODULE Spec2Model ----
(***************************************************************************)
(* The plunger entity of src/lib/vpt/plunger/plunger.ts as a state machine. *)
(*                                                                         *)
(* The entity (class Plunger) is translated from the source.  The mover    *)
(* it drives (PlungerMover, reached through PlungerHit.getMoverObject) is  *)
(* not part of the source tree; it is modelled from the specification      *)
(* (section 4.1) and from the contract the entity's own comments state for *)
(* the two calls it makes: fire(1.0) releases from the maximum retracted   *)
(* position, fire() releases from the current position.                    *)
(*                                                                         *)
(* Positions are integers on the travel axis.  FrameTop is the forward     *)
(* limit (top of stroke, EOS), FrameBottom the retracted limit (bottom of  *)
(* stroke, BOS).  Velocities are position units per tick, negative =       *)
(* forward.                                                                *)
(***************************************************************************)
EXTENDS Integers, Sequences, FiniteSets, TLC

\* ---- bounds of the model ------------------------------------------------
Travel == 3          \* length of the stroke, FrameBottom - FrameTop
MaxSpeedPull == 2    \* largest configured pull speed (data.speedPull)
MaxSpeedFire == 3    \* largest configured fire speed
MaxSessions == 2     \* setupPlayer calls followed

\* ---- configuration (PlungerConfig / PlungerData) --------------------------
FrameTop == 0
FrameBottom == FrameTop + Travel
RestPos == 1         \* park position of the rod, just behind the forward limit
CFrames == 3         \* meshGenerator.cFrames
SpringK == 1         \* spring constant per tick^2

Undefined == 0       \* an unset optional field / an omitted argument / void
StateRecord == 1     \* the record PlungerState.claim hands out at construction
NoArg == 0 - 1       \* fire() called without a start position
One == 1             \* the argument 1.0 of fire(1.0)

Modes == {"Idle", "Retracting", "Fired"}
Ops == {"new", "setupPlayer", "getApi", "getMover", "getHitShapes",
        "getEventProxy", "pullBack", "fire", "getBallCreationPosition",
        "getBallCreationVelocity", "getState", "fireInit", "step",
        "getMeshes", "applyState", "isVisible", "isCollidable",
        "onBallCreated", "getEventNames"}

\* enum PlungerType
PlungerTypes == {"Modern", "Flat", "Custom"}
\* the parts of a plunger mesh, and the two applyState looks up in the group
Parts == {"rod", "spring", "flat"}
Absent == <<>>       \* a part the mesh generator did not produce (undefined)

\* lateral extents of the rod tip a table may configure: left edges and the
\* right edge
TipLefts == {0, 3}
TipRight == 10
\* coordinates handed out are in hundredths of a unit
Scale == 100
NoVertex == <<>>
\* radius of a ball, the clearance a created ball is given from the rod tip
BallRadius == 25

VARIABLES
    autoPlunger,   \* data.autoPlunger
    speedPull,     \* data.speedPull
    speedFire,     \* configured release speed
    type,          \* data.type
    isVisibleFlag, \* data.isVisible
    x,             \* mover.x: left edge of the rod tip
    x2,            \* mover.x2: right edge of the rod tip
    stateId,       \* this.state: the id of the entity's PlungerState record
    frame,         \* state.frame (Dynamic State)
    events,        \* this.events: Undefined or the id of the session's EventProxy
    hit,           \* this.hit: Undefined or the id of the session's PlungerHit
    hitEvents,     \* the EventProxy the PlungerHit (and its mover) was built with
    hitState,      \* the PlungerState record the PlungerHit was built with
    api,           \* this.api: Undefined or the id of the session's PlungerApi
    apiHit,        \* the PlungerHit the PlungerApi was built with
    apiEvents,     \* the EventProxy the PlungerApi was built with
    sessions,      \* number of setupPlayer calls so far
    inits,         \* per EventProxy id: how many Init events were raised on it
    pos,           \* mover.pos (meaningful while hit is set)
    speed,         \* mover velocity
    mode,          \* mover state: Idle / Retracting / Fired
    pullForce,     \* rate of the retraction in effect, 0 if none
    lastOp,        \* the operation that produced this state
    prePos,        \* mover.pos when that operation was called
    preMode,       \* mover state when that operation was called
    threw,         \* whether that operation ended with a thrown error
    retval,        \* what it returned (an object id, Undefined for undefined/void)
    raised,        \* the events it raised on the event proxy, in order
    vertex,        \* the Vertex3D it returned, in hundredths; <<>> if none
    names,         \* the list of names it returned; <<>> if none
    group,         \* the nodes of the render group it was given
    rendered,      \* the meshes it returned (getMeshes) or applied to nodes
                   \* of the group (applyState)
    ballOn,        \* whether a ball lies in the plunger lane
    ballY,         \* position of its centre on the travel axis
    ballVel,       \* its velocity on the travel axis, negative = forward
    ballHit        \* whether the collision test has reported a contact with it

config == <<autoPlunger, speedPull, speedFire, type, isVisibleFlag, x, x2, stateId>>
session == <<events, hit, hitEvents, hitState, api, apiHit, apiEvents, sessions,
            inits>>
mover == <<pos, speed, mode, pullForce>>
call == <<lastOp, prePos, preMode, threw, retval, raised, vertex, names, group,
         rendered>>
ball == <<ballOn, ballY, ballVel, ballHit>>
vars == <<autoPlunger, speedPull, speedFire, type, isVisibleFlag, x, x2, stateId, frame, events, hit,
          hitEvents, hitState, api,
          apiHit, apiEvents, sessions, inits, pos, speed, mode, pullForce, lastOp,
          prePos, preMode, threw, retval, raised, vertex, names, group, rendered,
          ballOn, ballY, ballVel, ballHit>>

\* ---- arithmetic -----------------------------------------------------------
Min(a, b) == IF a < b THEN a ELSE b
Max(a, b) == IF a > b THEN a ELSE b
\* variant: no friction, the velocity is carried over whole
Half_Frictionless(v) == v

\* division rounding toward zero, as a friction loss on the velocity
Half(v) == IF v < 0 THEN 0 - ((0 - v) \div 2) ELSE v \div 2
Clamp(p) == Max(FrameTop, Min(FrameBottom, p))
Count(s, e) == Cardinality({i \in DOMAIN s : s[i] = e})

\* frame index of a rod position: 0 at the forward limit, CFrames-1 retracted
FrameOf(p) == (2 * (p - FrameTop) * (CFrames - 1) + Travel) \div (2 * Travel)

\* ---- construction ---------------------------------------------------------
\* constructor: data, meshGenerator, state = PlungerState.claim(name, 0);
\* api, hit and events stay undefined.
Constructed ==
    /\ stateId = StateRecord /\ frame = 0
    /\ events = Undefined /\ hit = Undefined /\ hitEvents = Undefined
    /\ hitState = Undefined
    /\ api = Undefined /\ apiHit = Undefined /\ apiEvents = Undefined
    /\ sessions = 0
    /\ inits = [k \in 1..MaxSessions |-> 0]
    /\ pos = RestPos /\ speed = 0 /\ mode = "Idle" /\ pullForce = 0
    /\ lastOp = "new" /\ prePos = RestPos /\ preMode = "Idle"
    /\ threw = FALSE /\ retval = Undefined /\ raised = <<>>
    /\ vertex = NoVertex /\ names = <<>> /\ group = {} /\ rendered = {}

\* no ball in the plunger lane
NoBall ==
    /\ ballOn = FALSE /\ ballY = 0 /\ ballVel = 0 /\ ballHit = FALSE

\* a ball at rest at the rod's forward limit: its rear edge on FrameTop
BallAtLimit ==
    /\ ballOn = TRUE /\ ballY = FrameTop - BallRadius /\ ballVel = 0
    /\ ballHit = FALSE

\* a plunger of any launch mode, pull speed and fire speed, on a table that
\* shows it as a custom plunger with its tip at 0..10
Init ==
    /\ autoPlunger \in BOOLEAN
    /\ speedPull \in 1..MaxSpeedPull
    /\ speedFire \in 0..MaxSpeedFire
    /\ type = "Custom" /\ isVisibleFlag = TRUE
    /\ x = 0 /\ x2 = TipRight
    /\ Constructed
    /\ NoBall

\* a plunger of any type, visibility and tip position, of either launch mode,
\* with the largest pull and fire speeds
TableInit ==
    /\ autoPlunger \in BOOLEAN
    /\ speedPull = MaxSpeedPull
    /\ speedFire = MaxSpeedFire
    /\ type \in PlungerTypes /\ isVisibleFlag \in BOOLEAN
    /\ x \in TipLefts /\ x2 = TipRight
    /\ Constructed
    /\ NoBall

\* a plunger of either launch mode and any fire speed, with a ball at rest at
\* the forward limit of its rod
HitInit ==
    /\ autoPlunger \in BOOLEAN
    /\ speedPull = 1
    /\ speedFire \in 0..MaxSpeedFire
    /\ type = "Custom" /\ isVisibleFlag = TRUE
    /\ x = 0 /\ x2 = TipRight
    /\ Constructed
    /\ BallAtLimit

\* the call record: which operation ran and from which mover state
Called(op) ==
    /\ lastOp' = op /\ prePos' = pos /\ preMode' = mode

\* what an operation reports to its caller
NoRender == group' = {} /\ rendered' = {}
Returns(op, value) ==
    /\ Called(op) /\ threw' = FALSE /\ retval' = value /\ vertex' = NoVertex
    /\ names' = <<>> /\ NoRender
ReturnsVertex(op, v) ==
    /\ Called(op) /\ threw' = FALSE /\ retval' = Undefined /\ vertex' = v
    /\ names' = <<>> /\ NoRender
ReturnsNames(op, ns) ==
    /\ Called(op) /\ threw' = FALSE /\ retval' = Undefined /\ vertex' = NoVertex
    /\ names' = ns /\ NoRender
ReturnsRender(op, g, r) ==
    /\ Called(op) /\ threw' = FALSE /\ retval' = Undefined /\ vertex' = NoVertex
    /\ names' = <<>> /\ group' = g /\ rendered' = r
Throws(op) ==
    /\ Called(op) /\ threw' = TRUE /\ retval' = Undefined /\ raised' = <<>>
    /\ vertex' = NoVertex /\ names' = <<>> /\ NoRender

\* ---- the mover (PlungerMover) ----------------------------------------------
\* new PlungerMover: the rod parked at rest, no motion
MoverInit ==
    /\ pos' = RestPos /\ speed' = 0 /\ mode' = "Idle" /\ pullForce' = 0

\* PlungerMover.pullBack(speed): start retracting at the given rate;
\* no effect if already fully retracted
MoverPullBack(rate) ==
    IF pos = FrameBottom
    THEN UNCHANGED mover
    ELSE /\ mode' = "Retracting"
         /\ pullForce' = rate
         /\ speed' = 0
         /\ pos' = pos

\* position a release starts from: the argument as a fraction of the stroke
\* measured from the forward limit, the current position if omitted
FireStart(startPos) ==
    IF startPos = NoArg THEN pos ELSE FrameTop + startPos * Travel

\* PlungerMover.fire(startPos?): cancel any pull, move to the start position
\* and release forward
MoverFire(startPos) ==
    /\ pullForce' = 0
    /\ pos' = Clamp(FireStart(startPos))
    /\ speed' = 0 - speedFire
    /\ mode' = "Fired"

\* velocity after one tick of the release: friction, then the spring force
\* -k * (pos - restPos)
SpringSpeed == Half(speed) - SpringK * (pos - RestPos)

\* position the tick aims at, before the travel bounds are applied
StepTarget ==
    CASE mode = "Retracting" -> pos + pullForce
      [] mode = "Fired" -> pos + SpringSpeed
      [] OTHER -> pos

\* variant: the travel bounds are not applied
StepPos_Unclamped == StepTarget

\* position after the tick: clamped to the travel bounds
StepPos == Clamp(StepTarget)

\* velocity after the tick: zero while retracting or idle, zero at a hard stop
StepSpeed ==
    IF mode = "Fired" /\ StepTarget = StepPos THEN SpringSpeed ELSE 0

\* mover state after the tick: a release ends when the rod is at rest in the
\* rest position
StepMode ==
    IF mode = "Fired" /\ StepPos = RestPos /\ StepSpeed = 0 THEN "Idle" ELSE mode

\* variant: level triggered, raised by every tick that ends at the limit
StepEvents_Level ==
    (IF StepPos = FrameTop THEN <<"LimitEOS">> ELSE <<>>)
    \o (IF StepPos = FrameBottom THEN <<"LimitBOS">> ELSE <<>>)

\* limit switches, edge triggered: raised by the tick that brings the rod to
\* the limit, not while it is held there
StepEvents ==
    (IF pos # FrameTop /\ StepPos = FrameTop THEN <<"LimitEOS">> ELSE <<>>)
    \o (IF pos # FrameBottom /\ StepPos = FrameBottom THEN <<"LimitBOS">> ELSE <<>>)

\* PlungerMover.updateDisplacements / updateVelocities: one simulation tick
MoverStep ==
    /\ pos' = StepPos
    /\ speed' = StepSpeed
    /\ mode' = StepMode
    /\ pullForce' = pullForce
    /\ frame' = FrameOf(StepPos)
    /\ raised' = StepEvents

\* ---- the collision surface (PlungerHit) ---------------------------------------
\* displacement of the rod tip the tick aims at, the travel bounds aside: the
\* sweep the collision test covers
TipSweep == StepTarget - pos

\* variant: the ball is handed the rod's velocity with the sign turned round
HitVelocity_Reversed == 0 - TipSweep

\* velocity a contact hands to the ball: that of the rod tip (the rod is
\* driven, the ball takes its velocity along the travel axis)
HitVelocity == TipSweep

\* swept test over the tick: the rod tip closes in on the ball and, at the end
\* of its sweep, would touch or have passed the ball's rear edge
Contact ==
    /\ ballOn
    /\ TipSweep < ballVel
    /\ StepPos <= ballY + ballVel + BallRadius

\* centre of the ball after the contact: where it would be, corrected to lie
\* no nearer to the rod tip than its radius
ContactY == Min(ballY + ballVel, StepPos - BallRadius)

\* PlungerHit.hitTest / collide over one tick: a contact is reported and
\* resolved; a ball that was hit rolls out of the rod's reach; a ball at rest
\* stays
HitStep ==
    IF Contact
    THEN /\ ballHit' = TRUE
         /\ ballVel' = HitVelocity
         /\ ballY' = ContactY
         /\ ballOn' = TRUE
    ELSE IF ballOn /\ ballVel # 0
    THEN /\ ballOn' = FALSE /\ ballY' = 0 /\ ballVel' = 0
         /\ ballHit' = ballHit
    ELSE UNCHANGED ball

\* ---- the entity (Plunger) ----------------------------------------------------
\* variant: setupPlayer claims a fresh state record for the new PlungerHit
SetupState_Fresh == stateId + 1

\* the state record setupPlayer hands to the new PlungerHit: this.state
SetupState == stateId

\* setupPlayer, statement by statement: a new EventProxy is stored; then the
\* arguments of new PlungerHit are evaluated, among them player.getPhysics(),
\* which throws if the player cannot deliver (physicsOk = FALSE) and ends the
\* call there; otherwise the new PlungerHit on the entity's state and that
\* proxy is stored, then a new PlungerApi on that hit and that proxy.
\* Every call uses up one object id.
setupPlayer ==
    /\ sessions < MaxSessions
    /\ sessions' = sessions + 1
    /\ events' = sessions + 1
    /\ \E physicsOk \in BOOLEAN :
         IF physicsOk
         THEN /\ hit' = sessions + 1
              /\ hitEvents' = events'
              /\ hitState' = SetupState
              /\ api' = sessions + 1
              /\ apiHit' = hit'
              /\ apiEvents' = events'
              /\ MoverInit
              /\ raised' = <<>>
              /\ Returns("setupPlayer", Undefined)
         ELSE /\ Throws("setupPlayer")
              /\ UNCHANGED <<hit, hitEvents, hitState, api, apiHit, apiEvents, mover>>
    /\ UNCHANGED <<ball, config, frame, inits>>

\* getState: return this.state!
getState ==
    /\ Returns("getState", stateId)
    /\ raised' = <<>>
    /\ UNCHANGED <<ball, config, frame, session, mover>>

\* variant: the access is guarded (this.hit?.getMoverObject()) and never throws
getMoverThrows_Guarded == FALSE

\* this.hit!.getMoverObject(): a TypeError when this.hit is undefined
getMoverThrows == hit = Undefined

\* getApi: return this.api!
getApi ==
    /\ Returns("getApi", api)
    /\ raised' = <<>>
    /\ UNCHANGED <<ball, config, frame, session, mover>>

\* getHitShapes: return [ this.hit! ]
getHitShapes ==
    /\ Returns("getHitShapes", hit)
    /\ raised' = <<>>
    /\ UNCHANGED <<ball, config, frame, session, mover>>

\* getEventProxy: return this.events!
getEventProxy ==
    /\ Returns("getEventProxy", events)
    /\ raised' = <<>>
    /\ UNCHANGED <<ball, config, frame, session, mover>>

\* getMover: return this.hit!.getMoverObject()
getMover ==
    /\ IF getMoverThrows
       THEN Throws("getMover")
       ELSE Returns("getMover", hit) /\ raised' = <<>>
    /\ UNCHANGED <<ball, config, frame, session, mover>>

\* variant: the pull speed is handed over with the wrong sign
PullArg_Negated == 0 - speedPull

\* the rate pullBack hands to the mover: this.data.speedPull
PullArg == speedPull

\* variant: pullBack calls the mover's fire() instead of its pullBack()
pullBack_Fires ==
    /\ IF getMoverThrows
       THEN Throws("pullBack") /\ UNCHANGED mover
       ELSE /\ MoverFire(NoArg)
            /\ Returns("pullBack", Undefined) /\ raised' = <<>>
    /\ UNCHANGED <<ball, config, frame, session>>

\* pullBack: this.getMover().pullBack(this.data.speedPull)
pullBack ==
    /\ IF getMoverThrows
       THEN Throws("pullBack") /\ UNCHANGED mover
       ELSE /\ MoverPullBack(PullArg)
            /\ Returns("pullBack", Undefined) /\ raised' = <<>>
    /\ UNCHANGED <<ball, config, frame, session>>

\* variant: the auto plunger branch is missing, fire() is always called bare
FireArg_Bare == NoArg

\* variant: fire(1.0) is called for every plunger
FireArg_Full == One

\* variant: the auto plunger test is inverted
FireArg_Inverted == IF autoPlunger THEN NoArg ELSE One

\* the argument fire hands to the mover: 1.0 for an auto plunger, none otherwise
FireArg == IF autoPlunger THEN One ELSE NoArg

\* fire: this.getMover().fire(1.0) for an auto plunger, this.getMover().fire()
\* for a regular one
fire ==
    /\ IF getMoverThrows
       THEN Throws("fire") /\ UNCHANGED mover
       ELSE /\ MoverFire(FireArg)
            /\ Returns("fire", Undefined) /\ raised' = <<>>
    /\ UNCHANGED <<ball, config, frame, session>>

\* table.getSurfaceHeight(szSurface, x, y): the height of the table surface
\* at a point, some fixed function of the point
SurfaceHeight(px, py) == ((px + py) % 7) * Scale

\* variant: the 0.01 clearance is left out, y = pos - 25.0
BallCreationY_NoClearance == pos * Scale - 25 * Scale

\* y of a created ball: this.getMover().pos - (25.0 + 0.01)
BallCreationY == pos * Scale - (25 * Scale + 1)

\* x of a created ball: (this.getMover().x + this.getMover().x2) * 0.5
BallCreationX == ((x + x2) * Scale) \div 2

\* new Vertex3D(x, y, height)
BallCreationPosition ==
    <<BallCreationX, BallCreationY, SurfaceHeight(BallCreationX, BallCreationY)>>

\* getBallCreationPosition: reads the mover's x, x2 and pos
getBallCreationPosition ==
    /\ IF getMoverThrows
       THEN Throws("getBallCreationPosition")
       ELSE /\ ReturnsVertex("getBallCreationPosition", BallCreationPosition)
            /\ raised' = <<>>
    /\ UNCHANGED <<ball, config, frame, session, mover>>

\* getBallCreationVelocity: return new Vertex3D(0, 0, 0)
getBallCreationVelocity ==
    /\ ReturnsVertex("getBallCreationVelocity", <<0, 0, 0>>)
    /\ raised' = <<>>
    /\ UNCHANGED <<ball, config, frame, session, mover>>

\* ---- rendering -----------------------------------------------------------------
\* PlungerMeshGenerator.generateMeshes(frame, table): the parts it produces,
\* a flat plunger as one flat part, the others as rod and spring
GenerateMeshes(t, f) == IF t = "Flat" THEN {"flat"} ELSE {"rod", "spring"}

\* a generated mesh: which part, sampled at which frame
Mesh(part, f) == <<part, f>>

\* getMeshes: generateMeshes(0, table), each part produced paired with
\* table.getMaterial(szMaterial) and table.getTexture(szImage)
MeshesOf(t) ==
    {[node |-> p, mesh |-> Mesh(p, 0), material |-> "szMaterial", map |-> "szImage"] :
        p \in GenerateMeshes(t, 0)}

getMeshes ==
    /\ ReturnsRender("getMeshes", {}, MeshesOf(type))
    /\ raised' = <<>>
    /\ UNCHANGED <<ball, config, frame, session, mover>>

\* variant: applyState samples frame 0, as getMeshes does
ApplyFrame_Zero == 0

\* the frame applyState hands to generateMeshes: this.state.frame
ApplyFrame == frame

\* variant: the flat part is applied to whatever node was found
AppliedMesh_Flat(node, t, f) ==
    IF "flat" \in GenerateMeshes(t, f) THEN Mesh("flat", f) ELSE Absent

\* what applyState passes to applyMeshToNode for a node it found: mesh.rod!
\* for 'rod', mesh.spring! for 'spring', absent if the generator produced none
AppliedMesh(node, t, f) ==
    IF node \in GenerateMeshes(t, f) THEN Mesh(node, f) ELSE Absent

\* the nodes applyState looks up with findInGroup
LookedUp == {"rod", "spring"}

\* variant: applyState advances the animation frame it has just drawn
applyState_Advances ==
    /\ \E obj \in SUBSET GenerateMeshes(type, 0) :
         ReturnsRender("applyState", obj,
            {[node |-> n, mesh |-> AppliedMesh(n, type, ApplyFrame),
              material |-> "none", map |-> "none"] : n \in obj \cap LookedUp})
    /\ raised' = <<>>
    /\ frame' = (frame + 1) % CFrames
    /\ UNCHANGED <<ball, config, session, mover>>

\* applyState: generateMeshes(this.state.frame, table), then for 'rod' and for
\* 'spring', if findInGroup finds the node, applyMeshToNode(mesh part, node).
\* obj is a group the renderer built from getMeshes: some of its nodes.
applyState ==
    /\ \E obj \in SUBSET GenerateMeshes(type, 0) :
         ReturnsRender("applyState", obj,
            {[node |-> n, mesh |-> AppliedMesh(n, type, ApplyFrame),
              material |-> "none", map |-> "none"] : n \in obj \cap LookedUp})
    /\ raised' = <<>>
    /\ UNCHANGED <<ball, config, frame, session, mover>>

\* isVisible: return this.data.isVisible (1 for true, 0 for false)
isVisible ==
    /\ Returns("isVisible", IF isVisibleFlag THEN 1 ELSE 0)
    /\ raised' = <<>>
    /\ UNCHANGED <<ball, config, frame, session, mover>>

\* isCollidable: return true
isCollidable ==
    /\ Returns("isCollidable", 1)
    /\ raised' = <<>>
    /\ UNCHANGED <<ball, config, frame, session, mover>>

\* onBallCreated: nothing to be done
onBallCreated ==
    /\ Returns("onBallCreated", Undefined)
    /\ raised' = <<>>
    /\ UNCHANGED <<ball, config, frame, session, mover>>

\* getEventNames: return [ 'Init', 'Timer', 'LimitEOS', 'LimitBOS' ]
getEventNames ==
    /\ ReturnsNames("getEventNames", <<"Init", "Timer", "LimitEOS", "LimitBOS">>)
    /\ raised' = <<>>
    /\ UNCHANGED <<ball, config, frame, session, mover>>

\* ---- the player (session setup and simulation loop) -------------------------
\* the player sets a session up completely, setupPlayer and then Init, before
\* it sets up another
PlayerReady == IF hit = Undefined THEN TRUE ELSE inits[hitEvents] >= 1

\* session setup, first step: the player calls setupPlayer
sessionSetup == PlayerReady /\ setupPlayer

\* variant: nothing keeps Init from being raised again on the same proxy
InitDue_Again == IF events = Undefined THEN FALSE ELSE inits[events] < 2

\* Init is due on the proxy of a session that has not had it
InitDue == IF events = Undefined THEN FALSE ELSE inits[events] = 0

\* session setup, second step: the player raises Init on the event proxy of
\* the session setupPlayer has built
fireInit ==
    /\ hit # Undefined /\ events = hitEvents
    /\ InitDue
    /\ inits' = [inits EXCEPT ![events] = @ + 1]
    /\ raised' = <<"Init">>
    /\ Returns("fireInit", Undefined)
    /\ UNCHANGED <<ball, config, frame, mover>>
    /\ UNCHANGED <<events, hit, hitEvents, hitState, api, apiHit, apiEvents, sessions>>

\* the simulation loop ticks the mover of a session once it is initialised
Initialised == IF hit = Undefined THEN FALSE ELSE inits[hitEvents] = 1

\* one simulation tick of the session's mover
step ==
    /\ Initialised
    /\ MoverStep
    /\ HitStep
    /\ Returns("step", Undefined)
    /\ UNCHANGED <<config, session>>

Next ==
    \/ sessionSetup
    \/ fireInit
    \/ getState
    \/ getApi
    \/ getHitShapes
    \/ getEventProxy
    \/ getMover
    \/ pullBack
    \/ fire
    \/ getBallCreationPosition
    \/ getBallCreationVelocity
    \/ getMeshes
    \/ applyState
    \/ isVisible
    \/ isCollidable
    \/ onBallCreated
    \/ getEventNames
    \/ step

Spec == Init /\ [][Next]_vars

\* the same entity over the tables it can be placed on
TableSpec == TableInit /\ [][Next]_vars

\* the simulation loop keeps ticking the mover of an active session, and the
\* player completes the session setup it has begun
\* (followed at the slowest pull: every rod position is still reached)
LiveInit == Init /\ speedPull = 1

LiveSpec == LiveInit /\ [][Next]_vars /\ WF_vars(step) /\ WF_vars(fireInit)

\* the same loop with a ball in the lane: each tick advances the mover, then
\* runs the collision test against the ball
HitSpec == HitInit /\ [][Next]_vars /\ WF_vars(step)

TypeOK ==
    /\ autoPlunger \in BOOLEAN
    /\ speedPull \in 1..MaxSpeedPull
    /\ speedFire \in 0..MaxSpeedFire
    /\ frame \in 0..(CFrames - 1)
    /\ events \in 0..MaxSessions /\ hit \in 0..MaxSessions
    /\ api \in 0..MaxSessions /\ sessions \in 0..MaxSessions
    /\ pos \in Int /\ speed \in Int
    /\ mode \in Modes
    /\ lastOp \in Ops
    /\ threw \in BOOLEAN

\* ---- properties -------------------------------------------------------------
SessionScoped == {"pullBack", "fire", "getMover", "getBallCreationPosition"}
SessionObjects == {"getApi", "getHitShapes", "getEventProxy"}

\* C1: on an auto-launch plunger with no pull in progress, fire() starts the
\* forward release from the fully retracted bound, whatever the rod position
\* was just before the call.
C1_AutoFireFromRetractedBound ==
    (lastOp = "fire" /\ ~threw /\ autoPlunger /\ preMode # "Retracting")
        => (pos = FrameBottom /\ mode = "Fired" /\ speed = 0 - speedFire)

\* C1 witness: an auto plunger fired in mid-flight at the forward limit
C1_Witness ==
    /\ lastOp = "fire" /\ ~threw /\ autoPlunger
    /\ preMode = "Fired" /\ prePos = FrameTop
    /\ pos = FrameBottom

\* C2: on a plunger without auto-launch, fire() starts the forward release
\* from the position the rod had just before the call, not from the
\* retracted bound.
C2_ManualFireFromCurrent ==
    (lastOp = "fire" /\ ~threw /\ ~autoPlunger)
        => (pos = prePos /\ mode = "Fired" /\ speed = 0 - speedFire)

\* C2 witness: a regular plunger fired from the middle of a pull
C2_Witness ==
    /\ lastOp = "fire" /\ ~threw /\ ~autoPlunger
    /\ preMode = "Retracting"
    /\ prePos > RestPos /\ prePos < FrameBottom
    /\ pos = prePos

\* C3: before setupPlayer, pullBack, fire, getMover and
\* getBallCreationPosition end with an error and change neither Dynamic State
\* nor the session objects (nor any mover state).
C3_FailFastBeforeSetup ==
    [][(hit = Undefined /\ lastOp' \in SessionScoped)
          => (threw' /\ UNCHANGED <<frame, session, mover>>)]_vars

\* C3 witness: fire() on a plunger that was never set up has thrown
C3_Witness ==
    /\ sessions = 0 /\ hit = Undefined
    /\ lastOp = "fire" /\ threw

\* C4: before setupPlayer, getApi, getHitShapes and getEventProxy fail rather
\* than return an absent object.
C4_AccessorsFailBeforeSetup ==
    (sessions = 0 /\ lastOp \in SessionObjects) => threw

\* C5: on an Active plunger the rod position lies within
\* [FrameTop, FrameBottom] after every pullBack, fire and step, for every
\* pull speed and fire speed.
C5_PosWithinFrame ==
    hit # Undefined => (pos >= FrameTop /\ pos <= FrameBottom)

\* C5 witness: a tick of a pull that would have passed the retracted bound
\* ended exactly on it
C5_Witness ==
    /\ lastOp = "step" /\ mode = "Retracting"
    /\ prePos < FrameBottom /\ prePos + pullForce > FrameBottom
    /\ pos = FrameBottom

\* C6: a tick raises LimitBOS exactly once when it brings the rod to the
\* retracted bound and LimitEOS exactly once when it brings it to the forward
\* bound; a tick that finds the rod already at the limit raises no further
\* event of that kind, and no other operation raises one.
C6_LimitEventsEdgeTriggered ==
    /\ lastOp = "step" =>
        /\ Count(raised, "LimitBOS")
             = (IF prePos # FrameBottom /\ pos = FrameBottom THEN 1 ELSE 0)
        /\ Count(raised, "LimitEOS")
             = (IF prePos # FrameTop /\ pos = FrameTop THEN 1 ELSE 0)
    /\ lastOp # "step" =>
        (Count(raised, "LimitBOS") = 0 /\ Count(raised, "LimitEOS") = 0)

\* C6 witness: a tick with the rod held at the retracted bound raised nothing
C6_Witness ==
    /\ lastOp = "step" /\ mode = "Retracting"
    /\ prePos = FrameBottom /\ pos = FrameBottom
    /\ raised = <<>>

\* C7: a fire during a retraction cancels it at once: the mover is Fired with
\* no pull rate left, the release starts at the position of the call (at the
\* retracted bound for an auto plunger), and no later tick of the release
\* carries the rod further back than where it stands, the spring's return to
\* the rest position aside.
C7_FireCancelsRetraction ==
    /\ []((lastOp = "fire" /\ ~threw /\ preMode = "Retracting")
            => /\ mode = "Fired" /\ pullForce = 0
               /\ pos = (IF autoPlunger THEN FrameBottom ELSE prePos))
    /\ []((lastOp = "step" /\ preMode = "Fired")
            => (pos <= prePos \/ pos <= RestPos))

\* C7 witness: a fire has interrupted a pull short of the retracted bound
\* and left the mover Fired with no pull rate
C7_Witness ==
    /\ lastOp = "fire" /\ ~threw /\ preMode = "Retracting"
    /\ prePos > RestPos /\ prePos < FrameBottom
    /\ mode = "Fired" /\ pullForce = 0

\* C8: the mover enters Retracting only in a pullBack call and Fired only in
\* a fire call.
C8_EntryOnlyByCall ==
    /\ (mode = "Retracting" /\ preMode # "Retracting") => lastOp = "pullBack"
    /\ (mode = "Fired" /\ preMode # "Fired") => lastOp = "fire"

\* C8 witness: a pullBack on an idle rod has entered Retracting
C8_Witness ==
    /\ lastOp = "pullBack" /\ ~threw
    /\ preMode = "Idle" /\ mode = "Retracting"

\* C9: once a tick of a release has run, either a pullBack or fire is issued
\* again or the rod comes to the rest position and the mover is Idle.
C9_ReleaseSettles ==
    (mode = "Fired" /\ lastOp = "step")
        ~> \/ (mode = "Idle" /\ pos = RestPos /\ speed = 0)
           \/ (lastOp \in {"pullBack", "fire", "setupPlayer"} /\ ~threw)

\* C9 witness: a tick has ended a release that started at the retracted
\* bound with a fire speed above the friction loss: the rod is idle at rest
C9_Witness ==
    /\ lastOp = "step" /\ preMode = "Fired"
    /\ autoPlunger /\ speedFire >= 2
    /\ mode = "Idle" /\ pos = RestPos /\ speed = 0

\* C10: a tick of a retraction never moves the rod away from the retracted
\* bound and moves it closer unless it is already there; a pullBack with the
\* rod at the retracted bound changes no mover state.
C10_PullBackMonotonic ==
    /\ []((lastOp = "step" /\ preMode = "Retracting")
            => /\ pos >= prePos
               /\ prePos < FrameBottom => pos > prePos)
    /\ [][(lastOp' = "pullBack" /\ hit # Undefined /\ pos = FrameBottom)
            => UNCHANGED <<mover, frame>>]_vars

\* C10 witness: a pullBack found the rod released at the retracted bound and
\* left the release running
C10_Witness ==
    /\ lastOp = "pullBack" /\ ~threw
    /\ prePos = FrameBottom /\ pos = FrameBottom
    /\ preMode = "Fired" /\ mode = "Fired"

\* C11: on an Active plunger a ball is created at x = (x + x2) / 2,
\* y = pos - 25.01 and z = the surface height at that point, and with
\* velocity (0, 0, 0), in every mover state; x = 0, x2 = 10 gives x = 5.
C11_BallCreation ==
    /\ (lastOp = "getBallCreationPosition" /\ ~threw) =>
        /\ 2 * vertex[1] = (x + x2) * Scale
        /\ vertex[2] = pos * Scale - 2501
        /\ vertex[3] = SurfaceHeight(vertex[1], vertex[2])
        /\ (x = 0 /\ x2 = 10) => vertex[1] = 5 * Scale
    /\ lastOp = "getBallCreationVelocity" => vertex = <<0, 0, 0>>

\* C11 witness: the spawn position was asked for during a release, with the
\* rod tip spanning 0..10 and the rod away from rest
C11_Witness ==
    /\ lastOp = "getBallCreationPosition" /\ ~threw
    /\ mode = "Fired" /\ pos = FrameBottom
    /\ x = 0 /\ x2 = 10
    /\ vertex[1] = 500 /\ vertex[2] = FrameBottom * Scale - 2501

\* C15: the Dynamic State record is the one claimed at construction, with
\* frame 0 then; getState returns it; every PlungerHit a setupPlayer builds
\* holds it; and no setupPlayer replaces it or resets its frame.
C15_OneStateRecord ==
    /\ [](/\ stateId = StateRecord
          /\ lastOp = "new" => frame = 0
          /\ lastOp = "getState" => (~threw /\ retval = StateRecord)
          /\ hit # Undefined => hitState = StateRecord)
    /\ [][lastOp' = "setupPlayer" => (stateId' = stateId /\ frame' = frame)]_vars

\* C15 witness: a second setupPlayer, after ticks had moved the frame, built a
\* PlungerHit on the same record and left the frame as it was
C15_Witness ==
    /\ lastOp = "setupPlayer" /\ ~threw
    /\ hit = 2 /\ hitState = StateRecord
    /\ frame = CFrames - 1

\* C16: the facade getApi returns is bound to the collision surface
\* getHitShapes returns, getMover returns that surface's mover, and surface
\* and facade use the event proxy getEventProxy returns.
C16_OneSession ==
    /\ api # Undefined => apiHit = hit
    /\ (lastOp = "getMover" /\ ~threw) => retval = hit
    /\ hit # Undefined => hitEvents = events
    /\ api # Undefined => apiEvents = events

\* C19: event proxy, collision surface and facade are all unset or all set,
\* also after a setupPlayer that failed part-way, and none is unset again.
C19_AllOrNone ==
    /\ [](\/ (events = Undefined /\ hit = Undefined /\ api = Undefined)
          \/ (events # Undefined /\ hit # Undefined /\ api # Undefined))
    /\ [][/\ events # Undefined => events' # Undefined
          /\ hit # Undefined => hit' # Undefined
          /\ api # Undefined => api' # Undefined]_vars

C13_ReleaseHitsBall ==
    /\ []((ballOn /\ ballHit) => ballVel < 0)
    /\ [](ballOn => pos - ballY >= BallRadius)
    /\ (lastOp = "step" /\ preMode = "Fired" /\ prePos = FrameBottom
          /\ ballOn /\ ~ballHit)
         ~> \/ ballHit
            \/ (lastOp \in {"pullBack", "fire", "setupPlayer"} /\ ~threw)

\* C13 witness: the first tick of a release from full retraction carried the
\* rod tip to the forward limit, the contact was reported and the ball moves
\* forward, its centre one radius from the tip
C13_Witness ==
    /\ lastOp = "step" /\ preMode = "Fired" /\ prePos = FrameBottom
    /\ pos = FrameTop
    /\ ballOn /\ ballHit /\ ballVel < 0
    /\ pos - ballY = BallRadius

ReadOnlyOps == {"getMeshes", "isVisible", "isCollidable", "applyState",
                "getBallCreationPosition", "getBallCreationVelocity",
                "onBallCreated", "getEventNames", "getApi", "getMover",
                "getHitShapes", "getEventProxy"}

\* C14: getMeshes, isVisible, isCollidable, applyState,
\* getBallCreationPosition, getBallCreationVelocity, onBallCreated,
\* getEventNames and the accessors getApi, getMover, getHitShapes and
\* getEventProxy leave the rod position and the frame index unchanged.
C14_OnlyMoverWrites ==
    [][lastOp' \in ReadOnlyOps => (pos' = pos /\ frame' = frame)]_vars

\* C14 witness: applyState ran in the middle of a release with the frame
\* index away from 0
C14_Witness ==
    /\ lastOp = "applyState" /\ mode = "Fired"
    /\ frame = CFrames - 1 /\ pos = FrameBottom

\* C17: every applyState draws the frame index Dynamic State holds, which is
\* the one the most recent tick of a mover left there, 0 if none has run.
C17_AppliedFrameIsCurrent ==
    /\ [](lastOp = "applyState" =>
            \A r \in rendered : r.mesh # Absent => r.mesh[2] = frame)
    /\ [](lastOp = "step" => frame = FrameOf(pos))
    /\ [][lastOp' # "step" => frame' = frame]_vars
    /\ [](sessions = 0 => frame = 0)

\* C17 witness: two applyState calls in a row, no tick in between, the second
\* drew the rod at the retracted frame
C17_Witness ==
    /\ lastOp = "applyState" /\ frame = CFrames - 1
    /\ "rod" \in group
    /\ \E r \in rendered : r.node = "rod" /\ r.mesh = Mesh("rod", CFrames - 1)

\* C18: getMeshes hands over every part the generator produces, paired with
\* the plunger's material and texture, and applyState applies the
\* current-frame mesh of every such part whose node is in the group.
C18_EveryPartRendered ==
    /\ lastOp = "getMeshes" =>
        \A p \in GenerateMeshes(type, 0) :
            \E r \in rendered :
                /\ r.node = p /\ r.mesh = Mesh(p, 0)
                /\ r.material = "szMaterial" /\ r.map = "szImage"
    /\ lastOp = "applyState" =>
        \A p \in GenerateMeshes(type, frame) \cap group :
            \E r \in rendered : r.node = p /\ r.mesh = Mesh(p, frame)

====
